---- MODULE Spec2Model ----
(***************************************************************************)
(* A model of src/etc/htmldocck.py: the template reader                    *)
(* (concat_multi_lines, get_commands), the resource cache (CachedFiles)    *)
(* and the check engine (check).                                           *)
(*                                                                         *)
(* Text is modelled as sequences of one-character strings, so that prefix  *)
(* stripping, the directive pattern, argument splitting and path           *)
(* normalisation are computed character by character as the code does.     *)
(* Optional values (Python None) are sequences of length 0 or 1.           *)
(***************************************************************************)
EXTENDS Integers, Sequences, FiniteSets, TLC

\* ------------------------------------------------------------------------
\* Bounds
\* ------------------------------------------------------------------------

\* the number of physical lines a template has at most
MaxLines == 3

\* ------------------------------------------------------------------------
\* Python values
\* ------------------------------------------------------------------------

None == << >>
Some(x) == << x >>

IsSpace(ch) == ch \in {" ", "\t", "\n", "\r"}

Letters ==
  {"a","b","c","d","e","f","g","h","i","j","k","l","m",
   "n","o","p","q","r","s","t","u","v","w","x","y","z",
   "A","B","C","D","E","F","G","H","I","J","K","L","M",
   "N","O","P","Q","R","S","T","U","V","W","X","Y","Z"}

Backslash == "\\"

\* s[n+1:]
DropFirst(s, n) == SubSeq(s, n + 1, Len(s))

\* s[:-1]
DropLast(s) == SubSeq(s, 1, Len(s) - 1)

\* s.startswith(p)
StartsWith(s, p) == Len(s) >= Len(p) /\ SubSeq(s, 1, Len(p)) = p

\* s.endswith(p)
EndsWith(s, p) ==
  Len(s) >= Len(p) /\ SubSeq(s, Len(s) - Len(p) + 1, Len(s)) = p

\* the number of leading characters of s that satisfy no break at position i
RECURSIVE LeadingSpaces(_)
LeadingSpaces(s) ==
  IF s # << >> /\ IsSpace(Head(s)) THEN 1 + LeadingSpaces(Tail(s)) ELSE 0

\* s.lstrip()
LStrip(s) == DropFirst(s, LeadingSpaces(s))

\* the loop of lines 180-184: the length of the longest common prefix
RECURSIVE MaxPrefix(_, _)
MaxPrefix(line, lastline) ==
  IF line # << >> /\ lastline # << >> /\ Head(line) = Head(lastline)
  THEN 1 + MaxPrefix(Tail(line), Tail(lastline))
  ELSE 0

\* sub in s, for sequences of characters
IsSubstring(sub, s) ==
  \E i \in 0 .. (Len(s) - Len(sub)) : SubSeq(s, i + 1, i + Len(sub)) = sub

\* s.split(): the maximal runs of non-whitespace characters
RECURSIVE SplitWs(_, _, _)
SplitWs(s, cur, out) ==
  IF s = << >>
  THEN IF cur = << >> THEN out ELSE Append(out, cur)
  ELSE IF IsSpace(Head(s))
       THEN SplitWs(Tail(s), << >>, IF cur = << >> THEN out ELSE Append(out, cur))
       ELSE SplitWs(Tail(s), Append(cur, Head(s)), out)

\* sep.join(words)
RECURSIVE Join(_, _)
Join(sep, words) ==
  IF words = << >> THEN << >>
  ELSE IF Len(words) = 1 THEN Head(words)
  ELSE Head(words) \o sep \o Join(sep, Tail(words))

\* ' '.join(s.split())
NormalizeWs(s) == Join(<< " " >>, SplitWs(s, << >>, << >>))

\* ------------------------------------------------------------------------
\* concat_multi_lines: one iteration of the loop of lines 175-195
\* ------------------------------------------------------------------------

\* line.rstrip('\r\n')
RECURSIVE RStripNewline(_)
RStripNewline(line) ==
  IF line # << >> /\ line[Len(line)] \in {"\r", "\n"}
  THEN RStripNewline(DropLast(line))
  ELSE line

\* lines 179-185: the common prefix with lastline, then whitespace, is removed
StripPrefix(line, lastline) ==
  IF lastline # None
  THEN LStrip(DropFirst(line, MaxPrefix(line, lastline[1])))
  ELSE line

\* line 187: firstlineno = firstlineno or lineno
FirstLineNo(firstlineno, lineno) ==
  IF firstlineno = None \/ firstlineno[1] = 0 THEN lineno ELSE firstlineno[1]

\* The generator's locals after one iteration on the physical line `raw`,
\* numbered lineno, and the pair it yields, if any.
concat_multi_lines(g, lineno, raw) ==
  LET line == StripPrefix(RStripNewline(raw), g.lastline)
      first == FirstLineNo(g.firstlineno, lineno)
  IN  IF EndsWith(line, << Backslash >>)
      THEN [lastline |-> Some(DropLast(line)),
            firstlineno |-> Some(first),
            catenated |-> g.catenated \o DropLast(line),
            yield |-> None]
      ELSE [lastline |-> None,
            firstlineno |-> None,
            catenated |-> << >>,
            yield |-> Some([lineno |-> first, line |-> g.catenated \o line])]

\* lines 197-198: after the last line, an open continuation is an error
TrailingBackslash(lastline) == lastline # None

\* ------------------------------------------------------------------------
\* LINE_PATTERN and shlex.split
\* ------------------------------------------------------------------------

\* (?<=(?<!\S)@)(?P<negated>!?)(?P<cmd>[A-Za-z]+...: LINE_PATTERN can match
\* with its `@` at position i
PatternAt(line, i) ==
  /\ line[i] = "@"
  /\ (i = 1 \/ IsSpace(line[i - 1]))
  /\ LET k == IF i + 1 <= Len(line) /\ line[i + 1] = "!" THEN i + 2 ELSE i + 1
     IN  k <= Len(line) /\ line[k] \in Letters

\* [A-Za-z]+(?:-[A-Za-z]+)* matched greedily from position k: the position
\* after the command name
RECURSIVE CmdEnd(_, _)
CmdEnd(line, k) ==
  IF k <= Len(line) /\ line[k] \in Letters THEN CmdEnd(line, k + 1)
  ELSE IF k + 1 <= Len(line) /\ line[k] = "-" /\ line[k + 1] \in Letters
       THEN CmdEnd(line, k + 2)
       ELSE k

\* LINE_PATTERN.search(line): None, or the groups of the leftmost match
LINE_PATTERN(line) ==
  LET hits == { i \in 1 .. Len(line) : PatternAt(line, i) }
  IN  IF hits = {} THEN None
      ELSE LET i == CHOOSE h \in hits : \A o \in hits : h <= o
               neg == line[i + 1] = "!"
               k == IF neg THEN i + 2 ELSE i + 1
               e == CmdEnd(line, k)
           IN  Some([negated |-> neg,
                     cmd |-> SubSeq(line, k, e - 1),
                     args |-> SubSeq(line, e, Len(line))])

\* shlex.split(args): POSIX rules, split on whitespace only, with quotes and
\* the backslash escape; ok is FALSE where shlex raises ValueError
RECURSIVE Shlex(_, _, _, _, _)
Shlex(s, state, token, quoted, out) ==
  IF s = << >>
  THEN CASE state = "ws" -> [ok |-> TRUE, args |-> out]
         [] state = "word" ->
              [ok |-> TRUE,
               args |-> IF token # << >> \/ quoted THEN Append(out, token) ELSE out]
         [] OTHER -> [ok |-> FALSE, args |-> out]
  ELSE LET ch == Head(s)
           rest == Tail(s)
       IN  CASE state = "ws" ->
                  IF IsSpace(ch) THEN Shlex(rest, "ws", << >>, FALSE, out)
                  ELSE IF ch = Backslash THEN Shlex(rest, "esc_word", << >>, FALSE, out)
                  ELSE IF ch = "\"" THEN Shlex(rest, "dq", << >>, TRUE, out)
                  ELSE IF ch = "'" THEN Shlex(rest, "sq", << >>, TRUE, out)
                  ELSE Shlex(rest, "word", << ch >>, FALSE, out)
             [] state = "word" ->
                  IF IsSpace(ch)
                  THEN Shlex(rest, "ws", << >>, FALSE,
                             IF token # << >> \/ quoted THEN Append(out, token) ELSE out)
                  ELSE IF ch = Backslash THEN Shlex(rest, "esc_word", token, quoted, out)
                  ELSE IF ch = "\"" THEN Shlex(rest, "dq", token, TRUE, out)
                  ELSE IF ch = "'" THEN Shlex(rest, "sq", token, TRUE, out)
                  ELSE Shlex(rest, "word", Append(token, ch), quoted, out)
             [] state = "dq" ->
                  IF ch = "\"" THEN Shlex(rest, "word", token, quoted, out)
                  ELSE IF ch = Backslash THEN Shlex(rest, "esc_dq", token, quoted, out)
                  ELSE Shlex(rest, "dq", Append(token, ch), quoted, out)
             [] state = "sq" ->
                  IF ch = "'" THEN Shlex(rest, "word", token, quoted, out)
                  ELSE Shlex(rest, "sq", Append(token, ch), quoted, out)
             [] state = "esc_word" ->
                  Shlex(rest, "word", Append(token, ch), quoted, out)
             [] OTHER ->
                  \* state = "esc_dq": the backslash stays unless it escapes " or \
                  Shlex(rest, "dq",
                        IF ch \in {"\"", Backslash}
                        THEN Append(token, ch)
                        ELSE token \o << Backslash, ch >>,
                        quoted, out)

shlex_split(args) == Shlex(args, "ws", << >>, FALSE, << >>)

\* ------------------------------------------------------------------------
\* get_commands: the body of the loop of lines 209-220 on one logical line
\* ------------------------------------------------------------------------

\* line 217: a non-empty remainder that does not start with whitespace
InvalidSyntax(args) == args # << >> /\ ~ IsSpace(Head(args))

get_commands(lineno, line) ==
  LET m == LINE_PATTERN(line)
  IN  IF m = None THEN [kind |-> "continue"]
      ELSE IF InvalidSyntax(m[1].args)
           THEN [kind |-> "raise", error |-> "syntax", lineno |-> lineno + 1]
      ELSE IF ~ shlex_split(m[1].args).ok
           THEN [kind |-> "raise", error |-> "shlex", lineno |-> 0]
      ELSE [kind |-> "yield",
            command |-> [negated |-> m[1].negated,
                         cmd |-> m[1].cmd,
                         args |-> shlex_split(m[1].args).args,
                         lineno |-> lineno + 1]]

\* ------------------------------------------------------------------------
\* Errors: the parts of the message of each RuntimeError (or ValueError)
\* lineno = 0, cmd = <<>>, bang = <<>>, path = <<>>: the message has no such part
\* ------------------------------------------------------------------------

Error(kind, bang, cmd, lineno, path) ==
  [kind |-> kind, bang |-> bang, cmd |-> cmd, lineno |-> lineno, path |-> path]

NoError == Error("none", << >>, << >>, 0, << >>)

\* the result of a call: a value, or a raised error, and the cache after it
Return(st, val) == [st |-> st, ok |-> TRUE, val |-> val, err |-> NoError]
Raise(st, err) == [st |-> st, ok |-> FALSE, val |-> FALSE, err |-> err]

\* ------------------------------------------------------------------------
\* The output directory: what open() and ET.parse() find
\* ------------------------------------------------------------------------

Dash == << "-" >>

Elem(tag, attrib, text) == [tag |-> tag, attrib |-> attrib, text |-> text]

NoAttrib == [k \in {} |-> << >>]

\* ------------------------------------------------------------------------
\* The markup parser: CustomHTMLParser, which feeds the events of HTMLParser
\* to the TreeBuilder of cElementTree (line 113, line 133)
\* ------------------------------------------------------------------------

VOID_ELEMENTS ==
  { << "a", "r", "e", "a" >>, << "b", "a", "s", "e" >>, << "b", "r" >>,
    << "c", "o", "l" >>, << "e", "m", "b", "e", "d" >>, << "h", "r" >>,
    << "i", "m", "g" >>, << "i", "n", "p", "u", "t" >>,
    << "k", "e", "y", "g", "e", "n" >>, << "l", "i", "n", "k" >>,
    << "m", "e", "n", "u", "i", "t", "e", "m" >>, << "m", "e", "t", "a" >>,
    << "p", "a", "r", "a", "m" >>, << "s", "o", "u", "r", "c", "e" >>,
    << "t", "r", "a", "c", "k" >>, << "w", "b", "r" >> }

\* an element as the builder makes it; its children are named by their
\* position in the sequence of the elements of the tree
Element(tag, attrib) ==
  [tag |-> tag, attrib |-> attrib, text |-> None, tail |-> None, children |-> << >>]

\* ET.TreeBuilder(): elems holds every element made, in the order of their
\* start; stack the positions of the open elements, innermost last; last the
\* position of the element started or ended last (0: None); data the text
\* received and not yet attached (None: none); root the first element
\* (0: None); raised the exception that ended the parse ("none": none)
TreeBuilder ==
  [elems |-> << >>, stack |-> << >>, last |-> 0, data |-> None, root |-> 0,
   raised |-> "none"]

\* the innermost open element of the builder (0: None)
This(b) == IF b.stack = << >> THEN 0 ELSE b.stack[Len(b.stack)]

\* the builder attaches the text it holds: to the last element as its text
\* while that element is the innermost open one, as its tail once it is ended
Flush(b) ==
  IF b.data = None THEN b
  ELSE IF This(b) = b.last
       THEN [b EXCEPT !.elems[b.last].text = b.data, !.data = None]
       ELSE [b EXCEPT !.elems[b.last].tail = b.data, !.data = None]

\* TreeBuilder.start after the text is attached: the new element becomes a
\* child of the innermost open element, or the root
Push(f, tag, attrib) ==
  IF This(f) = 0 /\ f.root # 0
  THEN [f EXCEPT !.raised = "multiple elements on top level"]
  ELSE [f EXCEPT
          !.elems = Append(IF This(f) = 0 THEN f.elems
                           ELSE [f.elems EXCEPT ![This(f)].children =
                                   Append(@, Len(f.elems) + 1)],
                           Element(tag, attrib)),
          !.root = IF This(f) = 0 THEN Len(f.elems) + 1 ELSE @,
          !.stack = Append(@, Len(f.elems) + 1),
          !.last = Len(f.elems) + 1]

\* TreeBuilder.end after the text is attached: the innermost open element
\* is ended, whatever its tag
Pop(f, tag) ==
  IF f.stack = << >>
  THEN [f EXCEPT !.raised = "pop from empty stack"]
  ELSE [f EXCEPT !.last = This(f), !.stack = DropLast(@)]

\* TreeBuilder.start(tag, attrs)
builder_start(b, tag, attrib) == Push(Flush(b), tag, attrib)

\* TreeBuilder.end(tag)
builder_end(b, tag) == Pop(Flush(b), tag)

\* TreeBuilder.data(data): text before the first element is dropped
builder_data(b, text) ==
  IF b.data = None
  THEN IF b.last = 0 THEN b ELSE [b EXCEPT !.data = Some(text)]
  ELSE [b EXCEPT !.data = Some(@[1] \o text)]

\* TreeBuilder.close(): the root (0: None)
builder_close(b) == b.root

\* dict((k, v or '') for k, v in attrs), attrs being pairs of a name and a
\* value or None
RECURSIVE AttrDict(_)
AttrDict(attrs) ==
  IF attrs = << >> THEN NoAttrib
  ELSE (attrs[Len(attrs)][1] :>
          (IF attrs[Len(attrs)][2] = None THEN << >> ELSE attrs[Len(attrs)][2][1]))
       @@ AttrDict(DropLast(attrs))

\* lines 138-139, with s the builder after start
EndIfVoid(s, tag) ==
  IF s.raised # "none" THEN s
  ELSE IF tag \in VOID_ELEMENTS THEN builder_end(s, tag) ELSE s

\* lines 135-139 without lines 138-139
handle_starttag_NoVoid(b, tag, attrs) == builder_start(b, tag, AttrDict(attrs))

\* lines 135-139
handle_starttag(b, tag, attrs) ==
  EndIfVoid(builder_start(b, tag, AttrDict(attrs)), tag)

\* lines 141-142
handle_endtag(b, tag) == builder_end(b, tag)

\* line 147, with s the builder after start
EndAfterStart(s, tag) == IF s.raised # "none" THEN s ELSE builder_end(s, tag)

\* lines 144-147
handle_startendtag(b, tag, attrs) ==
  EndAfterStart(builder_start(b, tag, AttrDict(attrs)), tag)

\* lines 149-150
handle_data(b, text) == builder_data(b, text)

\* lines 159-161
close(b) == builder_close(b)

\* the events HTMLParser calls the handlers with
StartTag(tag, attrs) == [kind |-> "starttag", tag |-> tag, attrs |-> attrs, data |-> << >>]
EndTagEvent(tag) == [kind |-> "endtag", tag |-> tag, attrs |-> << >>, data |-> << >>]
StartEndTag(tag, attrs) == [kind |-> "startendtag", tag |-> tag, attrs |-> attrs, data |-> << >>]
DataEvent(text) == [kind |-> "data", tag |-> << >>, attrs |-> << >>, data |-> text]

\* the handler HTMLParser calls for the event e
handle(b, e) ==
  CASE e.kind = "starttag" -> handle_starttag(b, e.tag, e.attrs)
    [] e.kind = "endtag" -> handle_endtag(b, e.tag)
    [] e.kind = "startendtag" -> handle_startendtag(b, e.tag, e.attrs)
    [] OTHER -> handle_data(b, e.data)

\* parser.feed(data) for the whole document: the handlers are called in the
\* order of the events until one raises
RECURSIVE feed(_, _)
feed(b, events) ==
  IF events = << >> \/ b.raised # "none" THEN b
  ELSE feed(handle(b, Head(events)), Tail(events))

\* _flatten(node, acc) for the element at position node of elems; acc is the
\* list of the pieces of text
RECURSIVE _flatten(_, _, _)
RECURSIVE FlattenChildren(_, _, _)

\* lines 228-229, with acc what _flatten(e, acc) left
AppendTail(e, acc) == IF e.tail # None /\ e.tail[1] # << >> THEN Append(acc, e.tail[1]) ELSE acc

\* the loop of lines 226-229 over the children kids
FlattenChildren(elems, kids, acc) ==
  IF kids = << >> THEN acc
  ELSE FlattenChildren(elems, Tail(kids),
                       AppendTail(elems[Head(kids)], _flatten(elems, Head(kids), acc)))

\* lines 223-229
_flatten(elems, node, acc) ==
  FlattenChildren(elems, elems[node].children,
                  IF elems[node].text # None /\ elems[node].text[1] # << >>
                  THEN Append(acc, elems[node].text[1]) ELSE acc)

\* lines 232-235 with the tail of the node itself appended
flatten_WithOwnTail(elems, node) ==
  Join(<< >>, AppendTail(elems[node], _flatten(elems, node, << >>)))

\* lines 232-235
flatten(elems, node) == Join(<< >>, _flatten(elems, node, << >>))

\* ET.parse(f, CustomHTMLParser()), for the events of the document f
parse(events) == feed(TreeBuilder, events)

\* what tree.findall('.//...') searches: the elements below the root, in
\* document order, each with its flattened text
Descendants(b) ==
  [i \in 1 .. (Len(b.elems) - 1) |->
     Elem(b.elems[i + 1].tag, b.elems[i + 1].attrib, flatten(b.elems, i + 1))]

\* the document a: <h><p>x</p><d k="z">z</d><p k="p  q">p<br>  q</p></h>
EventsA ==
  << StartTag(<< "h" >>, << >>),
     StartTag(<< "p" >>, << >>), DataEvent(<< "x" >>), EndTagEvent(<< "p" >>),
     StartTag(<< "d" >>, << << << "k" >>, Some(<< "z" >>) >> >>),
     DataEvent(<< "z" >>), EndTagEvent(<< "d" >>),
     StartTag(<< "p" >>, << << << "k" >>, Some(<< "p", " ", " ", "q" >>) >> >>),
     DataEvent(<< "p" >>), StartTag(<< "b", "r" >>, << >>),
     DataEvent(<< " ", " ", "q" >>), EndTagEvent(<< "p" >>),
     EndTagEvent(<< "h" >>) >>

\* the document c: <h></h></h>
EventsC == << StartTag(<< "h" >>, << >>), EndTagEvent(<< "h" >>), EndTagEvent(<< "h" >>) >>

ParsedA == parse(EventsA)
ParsedC == parse(EventsC)

\* the file `a` is well-formed HTML, `c` opens but does not parse, and no
\* other file exists; data stands for the text of the file
Storage(path) ==
  CASE path = << "a" >> ->
         [open |-> TRUE, parses |-> ParsedA.raised = "none",
          data |-> << "p", " ", " ", "q" >>,
          tree |-> Descendants(ParsedA)]
    [] path = << "c" >> ->
         [open |-> TRUE, parses |-> ParsedC.raised = "none",
          data |-> << "p" >>, tree |-> << >>]
    [] OTHER ->
         [open |-> FALSE, parses |-> FALSE, data |-> << >>, tree |-> << >>]

\* s.split(sep) for a one-character separator
RECURSIVE SplitOn(_, _, _, _)
SplitOn(s, sep, cur, out) ==
  IF s = << >> THEN Append(out, cur)
  ELSE IF Head(s) = sep THEN SplitOn(Tail(s), sep, << >>, Append(out, cur))
  ELSE SplitOn(Tail(s), sep, Append(cur, Head(s)), out)

\* the loop of posixpath.normpath over the components
RECURSIVE NormComps(_, _, _)
NormComps(comps, absolute, new) ==
  IF comps = << >> THEN new
  ELSE LET comp == Head(comps)
           DotDot == << ".", "." >>
       IN  IF comp \in {<< >>, << "." >>}
           THEN NormComps(Tail(comps), absolute, new)
           ELSE IF \/ comp # DotDot
                   \/ (~ absolute /\ new = << >>)
                   \/ (new # << >> /\ new[Len(new)] = DotDot)
                THEN NormComps(Tail(comps), absolute, Append(new, comp))
                ELSE IF new # << >>
                     THEN NormComps(Tail(comps), absolute, DropLast(new))
                     ELSE NormComps(Tail(comps), absolute, new)

\* os.path.normpath(path)
normpath(path) ==
  LET absolute == StartsWith(path, << "/" >>)
      joined == Join(<< "/" >>, NormComps(SplitOn(path, "/", << >>, << >>), absolute, << >>))
      full == IF absolute THEN << "/" >> \o joined ELSE joined
  IN  IF full = << >> THEN << "." >> ELSE full

\* ------------------------------------------------------------------------
\* CachedFiles
\* files, trees, last_path: the object's fields.  History, not read by the
\* code: explicit is the argument of the last resolve_path call with a path
\* other than `-`, dashes the number of calls with `-` since, and resolved
\* the value resolve_path returned last in the current directive; file_reads
\* and tree_reads count, per path, the files opened and read by get_file and
\* by get_tree.
\* ------------------------------------------------------------------------

EmptyDict == [k \in {} |-> << >>]

CachedFiles ==
  [files |-> EmptyDict, trees |-> EmptyDict, last_path |-> None,
   explicit |-> None, dashes |-> 0, resolved |-> None,
   file_reads |-> EmptyDict, tree_reads |-> EmptyDict]

Count(reads, path) == IF path \in DOMAIN reads THEN reads[path] ELSE 0

Incr(reads, path) ==
  IF path \in DOMAIN reads
  THEN [reads EXCEPT ![path] = @ + 1]
  ELSE reads @@ (path :> 1)

\* resolve_path with line 258 before line 257: the slot keeps the path as
\* written
resolve_path_Unnormalized(self, path) ==
  IF path # Dash
  THEN Return([self EXCEPT !.last_path = Some(path),
                           !.explicit = Some(path),
                           !.dashes = 0,
                           !.resolved = Some(normpath(path))],
              normpath(path))
  ELSE IF self.last_path = None
       THEN Raise(self, Error("no_previous_path", << >>, << >>, 0, << >>))
       ELSE Return([self EXCEPT !.resolved = self.last_path, !.dashes = @ + 1],
                   self.last_path[1])

resolve_path(self, path) ==
  IF path # Dash
  THEN Return([self EXCEPT !.last_path = Some(normpath(path)),
                           !.explicit = Some(path),
                           !.dashes = 0,
                           !.resolved = Some(normpath(path))],
              normpath(path))
  ELSE IF self.last_path = None
       THEN Raise(self, Error("no_previous_path", << >>, << >>, 0, << >>))
       ELSE Return([self EXCEPT !.resolved = self.last_path, !.dashes = @ + 1],
                   self.last_path[1])

\* lines 267-277, with r what resolve_path returned or raised
ReadFile(r) ==
  IF ~ r.ok THEN r
  ELSE IF r.val \in DOMAIN r.st.files
       THEN Return(r.st, r.st.files[r.val])
       ELSE IF ~ Storage(r.val).open
            THEN Raise(r.st, Error("cannot_open", << >>, << >>, 0, r.val))
            ELSE Return([r.st EXCEPT
                           !.files = @ @@ (r.val :> Storage(r.val).data),
                           !.file_reads = Incr(@, r.val)],
                        Storage(r.val).data)

\* lines 267-277 without line 276: the data read is not kept
ReadFile_NoStore(r) ==
  IF ~ r.ok THEN r
  ELSE IF r.val \in DOMAIN r.st.files
       THEN Return(r.st, r.st.files[r.val])
       ELSE IF ~ Storage(r.val).open
            THEN Raise(r.st, Error("cannot_open", << >>, << >>, 0, r.val))
            ELSE Return([r.st EXCEPT !.file_reads = Incr(@, r.val)],
                        Storage(r.val).data)

get_file_NoStore(self, path) == ReadFile_NoStore(resolve_path(self, path))

\* lines 265-277 with self.last_path set only once the file is open: a
\* failed open leaves the cache as it was before the path was resolved
ReadFile_KeepSlot(self, r) ==
  IF r.ok /\ r.val \notin DOMAIN r.st.files /\ ~ Storage(r.val).open
  THEN Raise([self EXCEPT !.resolved = r.st.resolved],
             Error("cannot_open", << >>, << >>, 0, r.val))
  ELSE ReadFile(r)

get_file_KeepSlot(self, path) == ReadFile_KeepSlot(self, resolve_path(self, path))

get_file(self, path) == ReadFile(resolve_path(self, path))

\* lines 281-295, with r what resolve_path returned or raised
ReadTree(r) ==
  IF ~ r.ok THEN r
  ELSE IF r.val \in DOMAIN r.st.trees
       THEN Return(r.st, r.st.trees[r.val])
       ELSE IF ~ Storage(r.val).open
            THEN Raise(r.st, Error("cannot_open", << >>, << >>, 0, r.val))
            ELSE IF ~ Storage(r.val).parses
                 THEN Raise([r.st EXCEPT !.tree_reads = Incr(@, r.val)],
                            Error("cannot_parse", << >>, << >>, 0, r.val))
                 ELSE Return([r.st EXCEPT
                                !.tree_reads = Incr(@, r.val),
                                !.trees = @ @@ (r.val :> Storage(r.val).tree)],
                             Storage(r.val).tree)

get_tree(self, path) == ReadTree(resolve_path(self, path))

\* ------------------------------------------------------------------------
\* The checks
\* ------------------------------------------------------------------------

\* re.search(pat, data) is not None, for the patterns of the templates
\* modelled here, which have no regular-expression operators
re_search(pat, data) == IsSubstring(pat, data)

check_string(data, pat, regexp) ==
  IF pat = << >> THEN TRUE
  ELSE IF regexp THEN re_search(pat, data)
  ELSE IsSubstring(NormalizeWs(pat), NormalizeWs(data))

NonAbsolute == Error("non_absolute_xpath", << >>, << >>, 0, << >>)

\* lines 238-245 without the else branch: any other path is passed on as it is
normalize_xpath_Lenient(path) ==
  IF StartsWith(path, << "/", "/" >>) THEN [ok |-> TRUE, path |-> << "." >> \o path]
  ELSE [ok |-> TRUE, path |-> path]

\* ok is FALSE where normalize_xpath raises
normalize_xpath(path) ==
  IF StartsWith(path, << "/", "/" >>) THEN [ok |-> TRUE, path |-> << "." >> \o path]
  ELSE IF StartsWith(path, << ".", "/", "/" >>) THEN [ok |-> TRUE, path |-> path]
  ELSE [ok |-> FALSE, path |-> path]

\* tree.findall(path) for the queries `.//tag`: the elements named tag, in
\* document order
findall(tree, path) ==
  SelectSeq(tree, LAMBDA e : path = << ".", "/", "/" >> \o e.tag)

\* the loop of lines 312-320 over the matched elements
RECURSIVE AnyAttr(_, _, _, _)
AnyAttr(elems, attr, pat, regexp) ==
  IF elems = << >> THEN FALSE
  ELSE IF attr \notin DOMAIN Head(elems).attrib
       THEN AnyAttr(Tail(elems), attr, pat, regexp)
       ELSE IF check_string(Head(elems).attrib[attr], pat, regexp) THEN TRUE
            ELSE AnyAttr(Tail(elems), attr, pat, regexp)

check_tree_attr(st, tree, path, attr, pat, regexp) ==
  IF ~ normalize_xpath(path).ok THEN Raise(st, NonAbsolute)
  ELSE Return(st, AnyAttr(findall(tree, normalize_xpath(path).path), attr, pat, regexp))

\* lines 327-335 with the loop left after its first element
AnyText_FirstOnly(elems, pat, regexp) ==
  IF elems = << >> THEN FALSE
  ELSE check_string(Head(elems).text, pat, regexp)

\* the loop of lines 327-335 over the matched elements
RECURSIVE AnyText(_, _, _)
AnyText(elems, pat, regexp) ==
  IF elems = << >> THEN FALSE
  ELSE IF check_string(Head(elems).text, pat, regexp) THEN TRUE
       ELSE AnyText(Tail(elems), pat, regexp)

check_tree_text(st, tree, path, pat, regexp) ==
  IF ~ normalize_xpath(path).ok THEN Raise(st, NonAbsolute)
  ELSE Return(st, AnyText(findall(tree, normalize_xpath(path).path), pat, regexp))

\* lines 339-341 with >= for ==
check_tree_count_AtLeast(st, tree, path, count) ==
  IF ~ normalize_xpath(path).ok THEN Raise(st, NonAbsolute)
  ELSE Return(st, Len(findall(tree, normalize_xpath(path).path)) >= count)

check_tree_count(st, tree, path, count) ==
  IF ~ normalize_xpath(path).ok THEN Raise(st, NonAbsolute)
  ELSE Return(st, Len(findall(tree, normalize_xpath(path).path)) = count)

\* s.partition(sep): the text before and after the first sep
partition(s, sep) ==
  LET at == { i \in 0 .. (Len(s) - Len(sep)) : SubSeq(s, i + 1, i + Len(sep)) = sep }
  IN  IF at = {} THEN [before |-> s, sep |-> << >>, after |-> << >>]
      ELSE LET i == CHOOSE h \in at : \A o \in at : h <= o
           IN  [before |-> SubSeq(s, 1, i), sep |-> sep,
                after |-> SubSeq(s, i + Len(sep) + 1, Len(s))]

Digits == << "0", "1", "2", "3", "4", "5", "6", "7", "8", "9" >>

DigitValue(ch) == (CHOOSE i \in 1 .. Len(Digits) : Digits[i] = ch) - 1

RECURSIVE Decimal(_, _)
Decimal(s, acc) ==
  IF s = << >> THEN acc ELSE Decimal(Tail(s), acc * Len(Digits) + DigitValue(Head(s)))

\* int(s): ok is FALSE where int raises ValueError
int(s) ==
  LET body == IF s # << >> /\ Head(s) \in {"+", "-"} THEN Tail(s) ELSE s
      good == body # << >> /\ \A i \in 1 .. Len(body) : \E d \in 1 .. Len(Digits) : Digits[d] = body[i]
  IN  IF ~ good THEN [ok |-> FALSE, val |-> 0]
      ELSE [ok |-> TRUE,
            val |-> IF Head(s) = "-" THEN 0 - Decimal(body, 0) ELSE Decimal(body, 0)]

Has == << "h", "a", "s" >>
Matches == << "m", "a", "t", "c", "h", "e", "s" >>
CountCmd == << "c", "o", "u", "n", "t" >>
ValidHtml == << "v", "a", "l", "i", "d", "-", "h", "t", "m", "l" >>
ValidLinks == << "v", "a", "l", "i", "d", "-", "l", "i", "n", "k", "s" >>
TextSuffix == << "/", "t", "e", "x", "t", "(", ")" >>

\* lines 350-354, with r what get_file returned or raised
Existence(r) == Return(r.st, r.ok)

\* lines 349-354: @has <path> = file existence
has_file(st, c) == Existence(get_file(st, c.args[1]))

\* line 356, with r what get_file returned or raised
StringTest(r, pat, regexp) ==
  IF ~ r.ok THEN r ELSE Return(r.st, check_string(r.val, pat, regexp))

\* line 356 inside the try/except of lines 350-354
StringTest_Swallow(r, pat, regexp) ==
  IF ~ r.ok THEN Return(r.st, FALSE)
  ELSE Return(r.st, check_string(r.val, pat, regexp))

has_string_Swallow(st, c, regexp) ==
  StringTest_Swallow(get_file(st, c.args[1]), c.args[2], regexp)

\* lines 355-356: @has/matches <path> <pat> = string test
has_string(st, c, regexp) ==
  StringTest(get_file(st, c.args[1]), c.args[2], regexp)

\* lines 363-365
TextQuery(pat) ==
  IF EndsWith(pat, TextSuffix)
  THEN SubSeq(pat, 1, Len(pat) - Len(TextSuffix))
  ELSE pat

\* lines 360-366, with tree what the second get_tree returned or raised and
\* parts the partition of the second argument
TreeTest(tree, parts, c, regexp) ==
  IF ~ tree.ok THEN tree
  ELSE IF parts.sep # << >>
       THEN check_tree_attr(tree.st, tree.val, parts.before, parts.after,
                            c.args[3], regexp)
       ELSE check_tree_text(tree.st, tree.val, TextQuery(c.args[2]), c.args[3], regexp)

\* lines 358-366, with first what the get_tree of line 358 returned or raised
TreeTestAfter(first, c, regexp) ==
  IF ~ first.ok THEN first
  ELSE TreeTest(get_tree(first.st, c.args[1]),
                partition(c.args[2], << "/", "@" >>), c, regexp)

\* lines 357-366: @has/matches <path> <pat> <match> = XML tree test
has_tree(st, c, regexp) == TreeTestAfter(get_tree(st, c.args[1]), c, regexp)

InvalidNumber(st, c) ==
  Raise(st, Error("invalid_number_of_arguments", << >>, c.cmd, c.lineno, << >>))

\* line 373, with tree what get_tree returned or raised and count what int did
CountTest(tree, count, c) ==
  IF ~ tree.ok THEN tree
  ELSE IF ~ count.ok
       THEN Raise(tree.st, Error("value_error", << >>, << >>, 0, << >>))
       ELSE check_tree_count(tree.st, tree.val, c.args[2], count.val)

\* lines 371-376: @count <path> <pat> <count> = count test
count_test(st, c) == CountTest(get_tree(st, c.args[1]), int(c.args[3]), c)

\* lines 347-385 with line 349 as `if len(c.args) == 1:`: the existence test
\* is taken by matches too
evaluate_MatchesExistence(st, c) ==
  IF c.cmd = Has \/ c.cmd = Matches
  THEN IF Len(c.args) = 1 THEN has_file(st, c)
       ELSE IF Len(c.args) = 2 THEN has_string(st, c, c.cmd = Matches)
       ELSE IF Len(c.args) = 3 THEN has_tree(st, c, c.cmd = Matches)
       ELSE InvalidNumber(st, c)
  ELSE IF c.cmd = CountCmd
       THEN IF Len(c.args) = 3 THEN count_test(st, c) ELSE InvalidNumber(st, c)
  ELSE IF c.cmd = ValidHtml
       THEN Raise(st, Error("unimplemented", << >>, ValidHtml, c.lineno, << >>))
  ELSE IF c.cmd = ValidLinks
       THEN Raise(st, Error("unimplemented", << >>, ValidLinks, c.lineno, << >>))
  ELSE Raise(st, Error("unrecognized", << >>, c.cmd, c.lineno, << >>))

\* lines 347-385 with lines 378-382 as `ret = True`: the unimplemented
\* directives are taken as holding
evaluate_SkipsUnimplemented(st, c) ==
  IF c.cmd = Has \/ c.cmd = Matches
  THEN IF Len(c.args) = 1 /\ c.cmd # Matches THEN has_file(st, c)
       ELSE IF Len(c.args) = 2 THEN has_string(st, c, c.cmd = Matches)
       ELSE IF Len(c.args) = 3 THEN has_tree(st, c, c.cmd = Matches)
       ELSE InvalidNumber(st, c)
  ELSE IF c.cmd = CountCmd
       THEN IF Len(c.args) = 3 THEN count_test(st, c) ELSE InvalidNumber(st, c)
  ELSE IF c.cmd = ValidHtml \/ c.cmd = ValidLinks
       THEN Return(st, TRUE)
  ELSE Raise(st, Error("unrecognized", << >>, c.cmd, c.lineno, << >>))

\* lines 347-385: the value of ret, or the error raised before the
\* comparison of line 387
evaluate(st, c) ==
  IF c.cmd = Has \/ c.cmd = Matches
  THEN IF Len(c.args) = 1 /\ c.cmd # Matches THEN has_file(st, c)
       ELSE IF Len(c.args) = 2 THEN has_string(st, c, c.cmd = Matches)
       ELSE IF Len(c.args) = 3 THEN has_tree(st, c, c.cmd = Matches)
       ELSE InvalidNumber(st, c)
  ELSE IF c.cmd = CountCmd
       THEN IF Len(c.args) = 3 THEN count_test(st, c) ELSE InvalidNumber(st, c)
  ELSE IF c.cmd = ValidHtml
       THEN Raise(st, Error("unimplemented", << >>, ValidHtml, c.lineno, << >>))
  ELSE IF c.cmd = ValidLinks
       THEN Raise(st, Error("unimplemented", << >>, ValidLinks, c.lineno, << >>))
  ELSE Raise(st, Error("unrecognized", << >>, c.cmd, c.lineno, << >>))

\* line 387 without the negation
CheckFailed_IgnoresNegation(ret, negated) == ~ ret

\* line 387
CheckFailed(ret, negated) == ret = negated

\* lines 387-389, with r what the directive evaluated to or raised
Compare(r, c) ==
  IF ~ r.ok THEN r
  ELSE IF CheckFailed(r.val, c.negated)
       THEN [st |-> r.st, ok |-> FALSE, val |-> r.val,
             err |-> Error("check_failed",
                           IF c.negated THEN << "!" >> ELSE << >>,
                           c.cmd, c.lineno, << >>)]
       ELSE r

\* the body of the loop of check on the directive c: ok iff the directive
\* passes; val is ret
check(st, c) == Compare(evaluate([st EXCEPT !.resolved = None], c), c)

\* ------------------------------------------------------------------------
\* The templates: the physical lines a template is made of
\* ------------------------------------------------------------------------

Sp == << " " >>

RECURSIVE Words(_)
Words(tokens) ==
  IF tokens = << >> THEN << >> ELSE Sp \o Head(tokens) \o Words(Tail(tokens))

Directive(negated, cmd, tokens) ==
  << "@" >> \o (IF negated THEN << "!" >> ELSE << >>) \o cmd \o Words(tokens)

\* a, ./a (the same file as a), b (missing), c (not HTML), and `-`
PathTokens ==
  { << "a" >>, << ".", "/", "a" >>, << "b" >>, << "c" >>, Dash }

PatternTokens ==
  { << "\"", "p", " ", "q", "\"" >>, << "z" >>, << "\"", "\"" >> }

\* the second and third argument of a tree test
TreeTokens ==
  { << << "/", "/", "p" >>, << "\"", "p", " ", "q", "\"" >> >>,
    << << "/", "/", "p" >>, << "z" >> >>,
    << << "/", "/", "p" >>, << "\"", "\"" >> >>,
    << << "/", "/", "q" >>, << "\"", "\"" >> >>,
    << << "p" >>, << "z" >> >>,
    << << "/", "/", "p", "/", "@", "k" >>, << "\"", "p", " ", "q", "\"" >> >>,
    << << "/", "/", "p", "/", "@", "k" >>, << "z" >> >>,
    << << "/", "/", "p", "/", "@", "j" >>, << "\"", "\"" >> >>,
    << << "p", "/", "@", "k" >>, << "z" >> >> }

\* the second and third argument of a count test
CountTokens ==
  { << << "/", "/", "p" >>, << "1" >> >>,
    << << "/", "/", "p" >>, << "2" >> >>,
    << << "/", "/", "p" >>, << "3" >> >>,
    << << "/", "/", "q" >>, << "0" >> >>,
    << << "/", "/", "q" >>, << "2" >> >>,
    << << "p" >>, << "2" >> >>,
    << << "p" >>, << "z" >> >>,
    << << "/", "/", "p" >>, << "z" >> >> }

TooMany == << << "a" >>, << "/", "/", "p" >>, << "2" >>, << "z" >> >>

\* the paths whose file loads, or may load, and those whose file does not
GoodPaths == { << "a" >>, Dash }
BadPaths == { << "b" >>, << "c" >> }

StringArgs ==
  {<< >>, TooMany}
    \cup { << p >> : p \in PathTokens }
    \cup { << p, t >> : p \in GoodPaths, t \in PatternTokens }
    \cup { << p, << "z" >> >> : p \in BadPaths }
    \cup { << p, x[1], x[2] >> : p \in GoodPaths, x \in TreeTokens }
    \cup { << p, << "/", "/", "p" >>, << "z" >> >> : p \in BadPaths }
    \cup { << << "b" >>, << "p" >>, << "z" >> >> }

CountArgs ==
  {<< >>, TooMany, << << "a" >> >>, << << "a" >>, << "/", "/", "p" >> >>}
    \cup { << p, x[1], x[2] >> : p \in GoodPaths, x \in CountTokens }
    \cup { << p, << "/", "/", "p" >>, << "2" >> >> : p \in BadPaths }

FewArgs == { << >>, << << "a" >> >>, << Dash, << "/", "/", "p" >>, << "2" >> >> }

Foo == << "f", "o", "o" >>

DirectiveLines ==
  { Directive(n, cmd, t) : n \in BOOLEAN, cmd \in {Has, Matches}, t \in StringArgs }
    \cup { Directive(n, CountCmd, t) : n \in BOOLEAN, t \in CountArgs }
    \cup { Directive(n, cmd, t) : n \in BOOLEAN, cmd \in {ValidHtml, ValidLinks, Foo},
                                  t \in FewArgs }

Comment == << "#", " " >>

OtherLines ==
  { << >>,
    << "x" >>,
    << "x" >> \o Directive(FALSE, Has, << << "a" >> >>),
    << "@", "h", "a", "s", ".", "a" >>,
    << "@", "h", "a", "s", " ", "\"", "a" >>,
    Comment \o Directive(FALSE, Has, << << "a" >> >>) \o Sp \o << Backslash >>,
    Comment \o Directive(TRUE, Has, << >>) \o Sp \o << Backslash >>,
    Comment \o << " ", " " >> \o << "b" >> \o Sp \o << Backslash >>,
    Comment \o << " ", " " >> \o << "z" >>,
    << Backslash, Backslash >>,
    << Backslash >> }

Lines == DirectiveLines \cup OtherLines

\* ------------------------------------------------------------------------
\* State
\* ------------------------------------------------------------------------

VARIABLES
  pc,           \* "read": get_commands runs; "check": check has a directive;
                \* "done": check returned; "error": an error was raised
  lineno,       \* the number of physical lines read (the next enumerate index)
  lastline,     \* concat_multi_lines: lastline
  firstlineno,  \* concat_multi_lines: firstlineno
  catenated,    \* concat_multi_lines: catenated
  logical,      \* get_commands: the pair (lineno, line) of the loop, from the
                \* yield of concat_multi_lines until the generator is resumed
  command,      \* check: the directive c being checked
  cache,        \* check: cache, with the history of its reads
  error,        \* the error raised
  hist          \* history: the number of the first physical line and the
                \* last physical line of the logical line being read or
                \* checked, whether the last physical line read ended in
                \* a backslash, the number of directives get_commands
                \* yielded and the number of them that passed

VARIABLES
  builder,      \* CustomHTMLParser: the TreeBuilder the events are passed to
  fed,          \* history: the events the handlers were called with
  closed        \* close was called and returned the tree

vars ==
  << pc, lineno, lastline, firstlineno, catenated, logical, command, cache,
     error, hist, builder, fed, closed >>

\* the state of the parser
parser == << builder, fed, closed >>

\* the state of the run of check
run == << pc, lineno, lastline, firstlineno, catenated, logical, command, cache,
         error, hist >>

Init ==
  /\ pc = "read"
  /\ lineno = 0
  /\ lastline = None
  /\ firstlineno = None
  /\ catenated = << >>
  /\ logical = None
  /\ command = None
  /\ cache = CachedFiles
  /\ error = NoError
  /\ hist = [start |-> None, prev |-> None, marker |-> FALSE,
             yielded |-> 0, passed |-> 0]
  /\ builder = TreeBuilder
  /\ fed = << >>
  /\ closed = FALSE

\* the generators are run on demand by the loop of check (line 346): with
\* the directive they are replaced by list(get_commands(template)), the
\* reading goes on before the directive is checked
Resume_Eager(kind) ==
  CASE kind = "raise" -> "error"
    [] OTHER -> "read"

\* where the run goes on after get_commands worked on a logical line: it
\* reads on (no directive on the line), raises, or yields the directive to
\* the loop of check, which evaluates it before the generator is resumed
Resume(kind) ==
  CASE kind = "continue" -> "read"
    [] kind = "raise" -> "error"
    [] OTHER -> "check"

\* get_commands asks concat_multi_lines for the next logical line, which
\* reads the physical line `raw`
ReadLine(raw) ==
  /\ pc = "read"
  /\ lineno < MaxLines
  /\ \E g \in {concat_multi_lines(
                [lastline |-> lastline, firstlineno |-> firstlineno,
                 catenated |-> catenated], lineno, raw)} :
      \E r \in {IF g.yield = None THEN [kind |-> "continue"]
              ELSE get_commands(g.yield[1].lineno, g.yield[1].line)} :
         /\ lineno' = lineno + 1
         /\ lastline' = g.lastline
         /\ firstlineno' = g.firstlineno
         /\ catenated' = g.catenated
         /\ logical' = IF r.kind = "continue" THEN None ELSE g.yield
         /\ hist' = [start |-> IF r.kind = "continue" /\ g.yield # None THEN None
                               ELSE IF lastline = None THEN Some(lineno)
                               ELSE hist.start,
                     prev |-> IF r.kind = "continue" /\ g.yield # None THEN None
                              ELSE Some(RStripNewline(raw)),
                     marker |-> EndsWith(RStripNewline(raw), << Backslash >>),
                     yielded |-> IF r.kind = "yield" THEN hist.yielded + 1
                                 ELSE hist.yielded,
                     passed |-> hist.passed]
         /\ pc' = Resume(r.kind)
         /\ error' = IF r.kind = "raise"
                     THEN Error(r.error, << >>, << >>, r.lineno, << >>)
                     ELSE error
         /\ command' = IF r.kind = "yield" THEN Some(r.command) ELSE None
         /\ UNCHANGED << cache, parser >>

\* the template has no more lines: lines 197-198, and check returns
EndOfFile ==
  /\ pc = "read"
  /\ IF TrailingBackslash(lastline)
     THEN /\ pc' = "error"
          /\ error' = Error("trailing_backslash", << >>, << >>, 0, << >>)
     ELSE /\ pc' = "done"
          /\ error' = error
  /\ UNCHANGED << lineno, lastline, firstlineno, catenated, logical, command,
                  cache, hist, parser >>

\* the body of the loop of check, lines 347-389, on the directive yielded
Check ==
  /\ pc = "check"
  /\ \E r \in {check(cache, command[1])} :
         /\ cache' = r.st
         /\ pc' = IF r.ok THEN "read" ELSE "error"
         /\ error' = r.err
         /\ command' = IF r.ok THEN None ELSE command
         \* the generator is resumed: its pair (lineno, line) is dead
         /\ logical' = IF r.ok THEN None ELSE logical
         /\ hist' = IF r.ok
                    THEN [hist EXCEPT !.start = None, !.prev = None, !.passed = @ + 1]
                    ELSE hist
  /\ UNCHANGED << lineno, lastline, firstlineno, catenated, parser >>

Next ==
  \/ \E raw \in Lines : ReadLine(raw)
  \/ EndOfFile
  \/ Check

Spec == Init /\ [][Next]_vars

\* ------------------------------------------------------------------------
\* The parser at work: HTMLParser calls the handlers of CustomHTMLParser
\* with the events of a document, then ET.parse calls close
\* ------------------------------------------------------------------------

\* the number of events of a document
MaxEvents == 5

\* p is not a void element, br is one
EventTags == { << "p" >>, << "b", "r" >> }

\* no attribute, and the attribute k without a value
EventAttrs == { << >>, << << << "k" >>, None >> >> }

EventText == { << "x" >> }

\* the parser can take one more event
Feeding == ~ closed /\ builder.raised = "none" /\ Len(fed) < MaxEvents

HandleStartTag(tag, attrs) ==
  /\ Feeding
  /\ builder' = handle_starttag(builder, tag, attrs)
  /\ fed' = Append(fed, StartTag(tag, attrs))
  /\ UNCHANGED << closed, run >>

HandleEndTag(tag) ==
  /\ Feeding
  /\ builder' = handle_endtag(builder, tag)
  /\ fed' = Append(fed, EndTagEvent(tag))
  /\ UNCHANGED << closed, run >>

HandleStartEndTag(tag, attrs) ==
  /\ Feeding
  /\ builder' = handle_startendtag(builder, tag, attrs)
  /\ fed' = Append(fed, StartEndTag(tag, attrs))
  /\ UNCHANGED << closed, run >>

HandleData(text) ==
  /\ Feeding
  /\ builder' = handle_data(builder, text)
  /\ fed' = Append(fed, DataEvent(text))
  /\ UNCHANGED << closed, run >>

\* the end of the document: close returns what the builder's close returns
Close ==
  /\ ~ closed
  /\ builder.raised = "none"
  /\ closed' = TRUE
  /\ UNCHANGED << builder, fed, run >>

NextParser ==
  \/ \E tag \in EventTags, attrs \in EventAttrs : HandleStartTag(tag, attrs)
  \/ \E tag \in EventTags : HandleEndTag(tag)
  \/ \E tag \in EventTags, attrs \in EventAttrs : HandleStartEndTag(tag, attrs)
  \/ \E text \in EventText : HandleData(text)
  \/ Close

SpecParser == Init /\ [][NextParser]_vars

\* ------------------------------------------------------------------------
\* Properties
\* ------------------------------------------------------------------------

\* the directive takes a PATH as its first argument and check resolves it
TakesPath(c) ==
  \/ c.cmd = Has /\ Len(c.args) \in 1 .. 3
  \/ c.cmd = Matches /\ Len(c.args) \in 2 .. 3
  \/ c.cmd = CountCmd /\ Len(c.args) = 3

\* the path the first argument of c stands for, when it can be resolved
Target(st, c) ==
  IF c.args[1] = Dash THEN st.last_path[1] ELSE normpath(c.args[1])

Resolvable(st, c) == c.args[1] # Dash \/ st.last_path # None

\* C1: check evaluates the directives in order and stops at the first that
\* fails or raises: nothing happens after an error, the error raised by a
\* directive names that directive (its line), and check returns normally
\* only with no directive failed.
C1_StopsAtFirstFailure ==
  [][ /\ pc \in {"error", "done"} => UNCHANGED vars
      /\ pc = "check" =>
           /\ pc' = IF check(cache, command[1]).ok THEN "read" ELSE "error"
           /\ pc' = "error" =>
                /\ command' = command
                /\ error'.lineno = command[1].lineno
      /\ pc' = "done" => command = None /\ pc = "read" ]_vars

\* C2: negation law.  If the unnegated directive evaluates to a boolean r,
\* the negated directive raises a check failure iff r is true and passes iff
\* r is false, and the unnegated one passes iff r is true; if the evaluation
\* raises, the directive raises that error, negated or not.
C2_NegationLaw ==
  [][ pc = "check" =>
        \E r \in { evaluate([cache EXCEPT !.resolved = None],
                            [command[1] EXCEPT !.negated = FALSE]) } :
          IF r.ok
          THEN /\ pc' = "error" => error'.kind = "check_failed"
               /\ command[1].negated => ((pc' = "error") <=> r.val)
               /\ command[1].negated => ((pc' = "read") <=> ~ r.val)
               /\ ~ command[1].negated => ((pc' = "read") <=> r.val)
          ELSE /\ pc' = "error"
               /\ error' = r.err
               /\ error'.kind # "check_failed" ]_vars

\* a negated directive has failed because its test was true
C2_Witness ==
  /\ pc = "error"
  /\ error.kind = "check_failed"
  /\ command[1].negated
  /\ Len(command[1].args) = 3

\* C3: a directive that takes a PATH and gives `-` before any path was
\* resolved ends the run with the usage error, negated or not.
C3_DashFirstIsUsageError ==
  [][ ( /\ pc = "check"
        /\ TakesPath(command[1])
        /\ command[1].args[1] = Dash
        /\ cache.last_path = None )
      => ( pc' = "error" /\ error'.kind = "no_previous_path" ) ]_vars

\* C4: a directive whose PATH is `-` resolves it to the normalized form of
\* the explicit path resolved last, and leaves the last-resolved-path slot
\* (and so what the next `-` resolves to) as it was.
C4_DashIsLastExplicitPath ==
  [][ ( /\ pc = "check"
        /\ TakesPath(command[1])
        /\ command[1].args[1] = Dash
        /\ cache.last_path # None )
      => ( /\ cache'.resolved = Some(normpath(cache.explicit[1]))
           /\ cache'.last_path = cache.last_path
           /\ cache'.explicit = cache.explicit
           /\ cache'.dashes > cache.dashes ) ]_vars

\* two directives in a row used `-` after the path ./a
C4_Witness ==
  /\ pc = "read"
  /\ lineno = 3
  /\ cache.explicit = Some(<< ".", "/", "a" >>)
  /\ cache.resolved = Some(<< "a" >>)
  /\ cache.dashes >= 2
  /\ DOMAIN cache.trees = {}

\* C5: no path is read from storage more than once for its text, nor more
\* than once for its tree.
C5_ReadAtMostOnce ==
  /\ \A p \in DOMAIN cache.file_reads : cache.file_reads[p] <= 1
  /\ \A p \in DOMAIN cache.tree_reads : cache.tree_reads[p] <= 1

\* a was named as ./a, then through `-` by a tree test, which asks for the
\* tree twice, and its text and its tree were each read once
C5_Witness ==
  /\ pc = "read"
  /\ cache.explicit = Some(<< ".", "/", "a" >>)
  /\ cache.dashes >= 2
  /\ Count(cache.file_reads, << "a" >>) = 1
  /\ Count(cache.tree_reads, << "a" >>) = 1

\* C6: the line number of a directive is the 1-based number of the first
\* physical line of its logical line.
C6_FirstPhysicalLine ==
  pc = "check" => command[1].lineno = hist.start[1] + 1

\* C7: a continuation line loses the longest prefix it shares with the
\* physical line before it (without its backslash), and the whitespace
\* after that prefix, before it is appended.
C7_SharedPrefixRemoved ==
  [][ ( pc = "read" /\ lastline # None /\ lineno' = lineno + 1 /\ hist'.prev # None )
      => \E claimed \in { LStrip(DropFirst(hist'.prev[1],
                                 MaxPrefix(hist'.prev[1], DropLast(hist.prev[1])))) } :
           IF lastline' # None
           THEN catenated' = catenated \o DropLast(claimed)
           ELSE logical' # None => logical'[1].line = catenated \o claimed ]_vars

\* C8: a template whose last physical line ends in a backslash never ends
\* normally: reading it to its end raises the trailing-backslash error.
C8_TrailingBackslashRaises ==
  [][ ( pc = "read" /\ hist.marker /\ pc' # "read" /\ lineno' = lineno )
      => ( pc' = "error" /\ error'.kind = "trailing_backslash" ) ]_vars

\* C9: every error that ends the run carries the line number of the
\* offending directive, and a check failure its command and negation too.
C9_ErrorsCarryLine ==
  pc = "error" =>
    /\ error.lineno = hist.start[1] + 1
    /\ error.kind = "check_failed" =>
         /\ error.cmd = command[1].cmd
         /\ error.bang = IF command[1].negated THEN << "!" >> ELSE << >>

\* C10: a file that cannot be loaded makes the 1-argument has false (@has
\* fails the check, @!has passes and the run goes on); in every other form a
\* file that cannot be opened, or parsed where the tree is needed, ends the
\* run with that error, negated or not.
C10_LoadFailure ==
  [][ ( pc = "check" /\ TakesPath(command[1]) /\ Resolvable(cache, command[1]) )
      => \E c \in { command[1] } :
         \E f \in { Storage(Target(cache, command[1])) } :
           /\ (Len(c.args) = 1 /\ ~ f.open) =>
                IF c.negated
                THEN pc' = "read" /\ error' = NoError
                ELSE pc' = "error" /\ error'.kind = "check_failed"
           /\ (Len(c.args) = 2 /\ ~ f.open) =>
                pc' = "error" /\ error'.kind = "cannot_open"
           /\ (Len(c.args) = 3 /\ ~ f.open) =>
                pc' = "error" /\ error'.kind = "cannot_open"
           /\ (Len(c.args) = 3 /\ f.open /\ ~ f.parses) =>
                pc' = "error" /\ error'.kind = "cannot_parse" ]_vars

\* @!has b passed on the missing file b and the run went on
C10_Witness ==
  /\ pc = "read"
  /\ cache.last_path = Some(<< "b" >>)
  /\ DOMAIN cache.files = {}
  /\ error = NoError

\* the directive has a number of arguments that no form of its command takes
WrongNumber(c) ==
  \/ c.cmd = Has /\ Len(c.args) \notin 1 .. 3
  \/ c.cmd = Matches /\ Len(c.args) \notin 2 .. 3
  \/ c.cmd = CountCmd /\ Len(c.args) # 3

\* C11: has with 0 or more than 3 arguments, matches with 0, 1 or more than
\* 3, and count with any number other than 3, end the run with the usage
\* error "Invalid number of arguments", which carries the directive's
\* command and line number and is not a check failure, negated or not; no
\* path is resolved: the cached files, the cached trees and the
\* last-resolved-path slot are as they were.
C11_WrongNumberIsUsageError ==
  [][ ( pc = "check" /\ WrongNumber(command[1]) )
      => /\ pc' = "error"
         /\ error' = Error("invalid_number_of_arguments", << >>,
                           command[1].cmd, command[1].lineno, << >>)
         /\ cache'.files = cache.files
         /\ cache'.trees = cache.trees
         /\ cache'.last_path = cache.last_path
         /\ cache'.resolved = None
         /\ cache'.file_reads = cache.file_reads
         /\ cache'.tree_reads = cache.tree_reads ]_vars

\* @!matches a, after a directive that resolved and loaded the file a, ended
\* the run with the usage error
C11_Witness ==
  /\ pc = "error"
  /\ error.kind = "invalid_number_of_arguments"
  /\ command[1].cmd = Matches
  /\ command[1].negated
  /\ command[1].args = << << "a" >> >>
  /\ cache.last_path = Some(<< "a" >>)
  /\ << "a" >> \in DOMAIN cache.files

\* the directive is a structural test: it queries the tree of its file
TakesTree(c) ==
  \/ c.cmd \in {Has, Matches} /\ Len(c.args) = 3
  \/ c.cmd = CountCmd /\ Len(c.args) = 3

\* the path-query of a structural test: its second argument, and in the
\* attribute form the part of it before the first /@
PathQuery(c) ==
  IF c.cmd = CountCmd THEN c.args[2] ELSE partition(c.args[2], << "/", "@" >>).before

Absolute(query) ==
  StartsWith(query, << "/", "/" >>) \/ StartsWith(query, << ".", "/", "/" >>)

\* the file of the directive c can be opened and parses
Loads(st, c) ==
  /\ Resolvable(st, c)
  /\ Storage(Target(st, c)).open
  /\ Storage(Target(st, c)).parses

\* the errors section 7 of the specification calls usage errors, among those
\* a structural test can raise
UsageErrors == { "non_absolute_xpath", "no_previous_path", "value_error" }

\* C12, as stated: a structural test whose path-query starts with neither //
\* nor .// always ends the run with a usage error.
C12_AsStated ==
  [][ ( pc = "check" /\ TakesTree(command[1]) /\ ~ Absolute(PathQuery(command[1])) )
      => ( pc' = "error" /\ error'.kind \in UsageErrors ) ]_vars

\* C12, amended: a structural test whose path-query starts with neither //
\* nor .// always ends the run with an error that is not a check failure,
\* negated or not, so it is never evaluated as "no match"; the error is the
\* usage error "Non-absolute XPath" whenever the file of the directive loads
\* and, for count, the third argument is an integer; otherwise it is the
\* error of resolving or loading the file, or of reading the number, which
\* are raised first.
C12_NonAbsoluteIsFatal ==
  [][ ( pc = "check" /\ TakesTree(command[1]) /\ ~ Absolute(PathQuery(command[1])) )
      => /\ pc' = "error"
         /\ error'.kind # "check_failed"
         /\ ( Loads(cache, command[1])
              /\ (command[1].cmd = CountCmd => int(command[1].args[3]).ok) )
            => error' = NonAbsolute
         /\ ~ Loads(cache, command[1])
            => error'.kind \in { "no_previous_path", "cannot_open", "cannot_parse" } ]_vars

\* @!has a p/@k z ended the run with the usage error
C12_Witness ==
  /\ pc = "error"
  /\ error = NonAbsolute
  /\ command[1].negated
  /\ command[1].cmd = Has
  /\ command[1].args = << << "a" >>, << "p", "/", "@", "k" >>, << "z" >> >>

\* the element e is matched by the query //tag or .//tag
Matched(e, query) ==
  query \in { << "/", "/" >> \o e.tag, << ".", "/", "/" >> \o e.tag }

\* the element e satisfies the test of the 3-argument has/matches directive c
Satisfies(e, c) ==
  IF partition(c.args[2], << "/", "@" >>).sep # << >>
  THEN /\ partition(c.args[2], << "/", "@" >>).after \in DOMAIN e.attrib
       /\ check_string(e.attrib[partition(c.args[2], << "/", "@" >>).after],
                       c.args[3], c.cmd = Matches)
  ELSE check_string(e.text, c.args[3], c.cmd = Matches)

\* some element of the tree is matched by the query of c and satisfies its test
SomeMatchSatisfies(tree, c) ==
  \E i \in 1 .. Len(tree) :
     /\ Matched(tree[i], IF partition(c.args[2], << "/", "@" >>).sep # << >>
                         THEN PathQuery(c) ELSE TextQuery(c.args[2]))
     /\ Satisfies(tree[i], c)

\* C13: a 3-argument has/matches whose file loads and whose query is
\* absolute is true iff at least one element matched by the query satisfies
\* the test: in the attribute form the element has the attribute and its
\* value satisfies the pattern, in the text form its flattened text does. So
\* the directive passes iff that holds and it is not negated, or that does
\* not hold and it is negated, whatever the order of the matched elements;
\* with no matched element it is false even for the empty pattern.
C13_AnyMatchSatisfies ==
  [][ ( /\ pc = "check"
        /\ command[1].cmd \in {Has, Matches}
        /\ Len(command[1].args) = 3
        /\ Loads(cache, command[1])
        /\ Absolute(PathQuery(command[1])) )
      => IF SomeMatchSatisfies(Storage(Target(cache, command[1])).tree, command[1])
            # command[1].negated
         THEN pc' = "read" /\ error' = NoError
         ELSE pc' = "error" /\ error'.kind = "check_failed" ]_vars

\* @!has a //p "p q" failed: the first p of a has the text x, a later p has
\* the text p  q
C13_Witness ==
  /\ pc = "error"
  /\ error.kind = "check_failed"
  /\ command[1].negated
  /\ command[1].cmd = Has
  /\ command[1].args = << << "a" >>, << "/", "/", "p" >>, << "p", " ", "q" >> >>

\* the command names check knows
KnownCommands == { Has, Matches, CountCmd, ValidHtml, ValidLinks }

\* C14: valid-html and valid-links always end the run with the error "not
\* implemented", which names the directive, and a command name check does
\* not know always ends the run with the error "unrecognized", which names
\* it: for every argument list, negated or not, without any change to the
\* cache; such a directive never passes and is never skipped.
C14_UnimplementedAndUnrecognized ==
  [][ ( pc = "check" /\ command[1].cmd \notin {Has, Matches, CountCmd} )
      => /\ pc' = "error"
         /\ error' = Error(IF command[1].cmd \in KnownCommands
                           THEN "unimplemented" ELSE "unrecognized",
                           << >>, command[1].cmd, command[1].lineno, << >>)
         /\ cache'.files = cache.files
         /\ cache'.trees = cache.trees
         /\ cache'.last_path = cache.last_path ]_vars

\* @!valid-links - //p 2 ended the run with "not implemented"
C14_Witness ==
  /\ pc = "error"
  /\ error.kind = "unimplemented"
  /\ error.cmd = ValidLinks
  /\ command[1].negated
  /\ Len(command[1].args) = 3

\* the positions of the elements of the builder b whose tag is a void one
VoidNodes(b) == { i \in 1 .. Len(b.elems) : b.elems[i].tag \in VOID_ELEMENTS }

\* C15: for every void tag and attribute list, and in every state of the
\* parser, the start-tag event alone leaves the builder exactly as the
\* self-closing event does: the new element is ended at once and has no
\* child, the open elements are those open before, so that the text that
\* follows becomes the tail of the void element and the element that
\* follows becomes a child of the void element's parent; no element with a
\* void tag ever has a child or a text of its own, or is left open.
C15_VoidElementsSelfClose ==
  /\ \A i \in VoidNodes(builder) :
        /\ builder.elems[i].children = << >>
        /\ builder.elems[i].text = None
        /\ \A k \in 1 .. Len(builder.stack) : builder.stack[k] # i
  /\ builder.raised = "none" =>
       \A tag \in EventTags \cap VOID_ELEMENTS, attrs \in EventAttrs :
         \E s \in { handle_starttag(builder, tag, attrs) } :
            /\ s = handle_startendtag(builder, tag, attrs)
            /\ s.raised = "none" =>
                 /\ Len(s.elems) = Len(builder.elems) + 1
                 /\ s.elems[Len(s.elems)] = Element(tag, AttrDict(attrs))
                 /\ s.stack = Flush(builder).stack
                 /\ s.last = Len(s.elems)
                 /\ \A text \in EventText, t \in EventTags :
                      \E n \in { handle_starttag(handle_data(s, text), t, << >>) } :
                         /\ n.elems[s.last].tail = Some(text)
                         /\ n.elems[s.last].children = << >>
                         /\ n.elems[s.last].text = None
                         /\ This(s) # 0 =>
                              n.elems[This(s)].children =
                                Append(s.elems[This(s)].children, Len(n.elems))

\* <p><br>x<br k> was parsed: the first br has no child, the text x is its
\* tail, and the second br is its sibling
C15_Witness ==
  /\ closed
  /\ fed = << StartTag(<< "p" >>, << >>), StartTag(<< "b", "r" >>, << >>),
              DataEvent(<< "x" >>),
              StartTag(<< "b", "r" >>, << << << "k" >>, None >> >>) >>
  /\ builder.elems[1].children = << 2, 3 >>
  /\ builder.elems[2].children = << >>
  /\ builder.elems[2].tail = Some(<< "x" >>)
  /\ builder.elems[3].attrib = (<< "k" >> :> << >>)

\* the tag of the innermost open element of the builder b, if there is one
OpenTag(b) == IF This(b) = 0 THEN None ELSE Some(b.elems[This(b)].tag)

\* C17: an end-tag event whose tag is not that of the innermost open
\* element, or that comes with no element open, makes the parse fail, and
\* so does the end of the document with elements still open: the handler
\* raises, and close does not return a tree.
C17_UnbalancedTagsFail ==
  [][ /\ ( /\ Len(fed') = Len(fed) + 1
           /\ fed'[Len(fed')].kind = "endtag"
           /\ OpenTag(builder) # Some(fed'[Len(fed')].tag) )
         => builder'.raised # "none"
      /\ ( builder.raised = "none" /\ Flush(builder).stack # << >> )
         => ~ closed' ]_vars

\* the pieces flatten joins for the children kids, in order: the flattened
\* text of each child, then its tail if it has one
RECURSIVE ChildrenText(_, _)
ChildrenText(elems, kids) ==
  IF kids = << >> THEN << >>
  ELSE flatten(elems, Head(kids))
       \o (IF elems[Head(kids)].tail = None THEN << >> ELSE elems[Head(kids)].tail[1])
       \o ChildrenText(elems, Tail(kids))

MatchCount(tree, query) ==
  Cardinality({ i \in 1 .. Len(tree) : Matched(tree[i], query) })

\* C16: a count directive whose file loads, whose query is absolute and
\* whose third argument is an integer is true iff the number of elements
\* matched by the query is exactly that integer: it passes iff the two are
\* equal and it is not negated, or they differ and it is negated. The
\* document a has two elements p and no element q; the templates count p
\* with 1, 2 and 3 and q with 0 and 2.
C16_CountIsExact ==
  [][ ( /\ pc = "check"
        /\ command[1].cmd = CountCmd
        /\ Len(command[1].args) = 3
        /\ Loads(cache, command[1])
        /\ int(command[1].args[3]).ok
        /\ Absolute(command[1].args[2]) )
      => IF ( MatchCount(Storage(Target(cache, command[1])).tree, command[1].args[2])
                = int(command[1].args[3]).val ) # command[1].negated
         THEN pc' = "read" /\ error' = NoError
         ELSE pc' = "error" /\ error'.kind = "check_failed" ]_vars

\* @count a //p 1 failed: a has two elements p
C16_Witness ==
  /\ pc = "error"
  /\ error.kind = "check_failed"
  /\ ~ command[1].negated
  /\ command[1].cmd = CountCmd
  /\ command[1].args = << << "a" >>, << "/", "/", "p" >>, << "1" >> >>
  /\ MatchCount(Storage(<< "a" >>).tree, << "/", "/", "p" >>) = 2

\* C19: resolving an explicit path sets the last-resolved-path slot before
\* the file is loaded, so the slot holds the path even when the load fails;
\* a `-` that follows a path whose file is missing stands for that path: the
\* 1-argument has is false, and every other form ends the run with the
\* error of opening that file; a load that fails adds no entry to the cached
\* texts or the cached trees.
C19_SlotSetBeforeLoad ==
  [][ ( pc = "check" /\ TakesPath(command[1]) )
      => \E c \in { command[1] } :
         /\ c.args[1] # Dash => cache'.last_path = Some(normpath(c.args[1]))
         /\ ( c.args[1] = Dash /\ cache.last_path # None )
            => /\ cache'.last_path = cache.last_path
               /\ cache'.resolved = cache.last_path
               /\ ~ Storage(cache.last_path[1]).open
                  => IF Len(c.args) = 1
                     THEN IF c.negated THEN pc' = "read"
                          ELSE pc' = "error" /\ error'.kind = "check_failed"
                     ELSE /\ pc' = "error"
                          /\ error' = Error("cannot_open", << >>, << >>, 0,
                                            cache.last_path[1])
         /\ ( Resolvable(cache, c) /\ ~ Storage(Target(cache, c)).open )
            => cache'.files = cache.files /\ cache'.trees = cache.trees
         /\ ( Resolvable(cache, c) /\ ~ Storage(Target(cache, c)).parses )
            => cache'.trees = cache.trees ]_vars

\* after @!has b passed on the missing file b, a directive with the path -
\* and a second argument ended the run with the error of opening b
C19_Witness ==
  /\ pc = "error"
  /\ error = Error("cannot_open", << >>, << >>, 0, << "b" >>)
  /\ command[1].args[1] = Dash
  /\ Len(command[1].args) = 2
  /\ cache.last_path = Some(<< "b" >>)
  /\ cache.explicit = Some(<< "b" >>)
  /\ cache.files = EmptyDict
  /\ cache.trees = EmptyDict
  /\ lineno = 2

\* the errors of the template itself: a directive that does not parse, and
\* the continuation left open at the end of the template
TemplateErrors == { "syntax", "shlex", "trailing_backslash" }

\* C20: the template is read as it is checked. An error of the template, a
\* syntax error on a logical line or the trailing backslash at the end, is
\* raised only from a run in which every directive yielded so far has been
\* evaluated and has passed and no error was raised; once a directive
\* failed or raised an error, nothing more is read and no such error is
\* raised.
C20_TemplateErrorsInOrder ==
  [][ /\ ( pc' = "error" /\ pc # "error" /\ error'.kind \in TemplateErrors )
         => /\ pc = "read"
            /\ command = None
            /\ error = NoError
            /\ hist.passed = hist.yielded
            /\ hist'.passed = hist'.yielded
      /\ ( pc = "check" /\ pc' = "error" ) => error'.kind \notin TemplateErrors
      /\ pc = "error" => UNCHANGED vars ]_vars

\* two directives passed, then the third line raised the syntax error
C20_Witness ==
  /\ pc = "error"
  /\ error.kind = "syntax"
  /\ error.lineno = 3
  /\ hist.yielded = 2
  /\ hist.passed = 2
  /\ cache.last_path = Some(<< "a" >>)

====
